---- MODULE Spec2Model ----
(***************************************************************************)
(* TimeClock: a desktop clock (src/TimeClockWindows.py and its annotated   *)
(* copy src/TimeClockWindowsNotes.py).                                     *)
(*                                                                         *)
(* Units.  Every number of the model is an integer count of TENTHS: an     *)
(* instant or a duration is in tenths of a second (600 s = 6000), a        *)
(* setting is in tenths of its unit (font 10.0 pt = 100).  One decimal is  *)
(* the resolution of the dialog's QDoubleSpinBox (setDecimals(1)) and the  *)
(* slider scale (value * 10).                                              *)
(*                                                                         *)
(* Python values.  A setting read from the JSON file keeps whatever JSON   *)
(* type the file gives it, so settings are tagged values:                  *)
(*   [k |-> "num", n |-> Int], [k |-> "str", s |-> STRING],                *)
(*   [k |-> "bool", b |-> BOOLEAN], [k |-> "null"], [k |-> "list", ...].   *)
(***************************************************************************)
EXTENDS Integers, Sequences, FiniteSets, TLC

VARIABLES
    variant,        \* which of the two source files runs: "Windows" | "Notes"
    app,            \* process: "off" | "running" | "crashed"
    exit_code,      \* exit code of the last process that ended (-1: none yet)
    runs,           \* number of process starts so far
    clock,          \* system clock, dt.datetime.now(dt.UTC), in tenths of a second
    \* ---- DigitalClock attributes
    time_pt, spacing, opacity, topmost, color,
    offset,         \* self.offset: network (NTP) offset, tenths of a second
    manual_offset,  \* self.manual_offset
    drag_pos,       \* self.drag_pos: None or a global point
    pos,            \* window position <<x, y>>
    hidden,         \* self.isHidden()
    on_top,         \* window flag Qt.WindowStaysOnTopHint
    date_lbl, time_lbl,   \* texts of the two labels
    \* ---- settings file and dialog
    config_file,    \* content of CONFIG_FILE
    saved,          \* how the last _save of this process ended: "none" | "ok" | "failed"
    dlg,            \* the open SettingsDialog, or NoDialog
    \* ---- the NTP thread (_ntp_loop)
    ntp_pc,         \* "none" | "call" | "request" | "returned" | "sleep" | "dead"
    ntp_dt,         \* value returned by fetch_ntp
    entered,        \* clock when the thread reached its current position
    req_start,      \* clock when the current/last request was issued
    in_flight,      \* number of HTTP requests in flight
    threads,        \* number of NTP threads started in this process
    attempts,       \* number of sync attempts started in this process
    prev_offset,    \* self.offset when the current/last attempt started
    outcome,        \* how the current/last attempt's request ended
    synced,         \* TRUE once a response of this process had a parsed, aware Date
    done_at         \* clock when the last attempt completed (-1: none)

settings_vars == <<time_pt, spacing, opacity, topmost, color, manual_offset>>
ui_vars == <<drag_pos, pos, hidden, on_top, date_lbl, time_lbl>>
ntp_vars == <<ntp_pc, ntp_dt, entered, req_start, in_flight, threads, attempts,
              prev_offset, outcome, synced, done_at>>
proc_vars == <<variant, app, exit_code, runs>>
vars == <<proc_vars, clock, settings_vars, offset, ui_vars, config_file, saved, dlg,
          ntp_vars>>

----------------------------------------------------------------------------
(* Program constants, in tenths.                                           *)
SleepTicks == 6000           \* time.sleep(600)
TimeoutTicks == 50           \* requests.head(SYNC_URL, timeout=5)
ZoneTicks == 288000          \* dt.timedelta(hours=8)
TickPeriod == 10             \* self.timer.start(1000): one second
DayTicks == 864000           \* 24 h, the length of a calendar day
DefaultFont == 100           \* self.time_pt = 10.0
DefaultSpacing == 20         \* self.spacing = 2.0
DefaultOpacity == 900        \* self.opacity = 90.0

(* Bounds of the model.                                                    *)
StartClock == 575975         \* first clock value: 23:59:57.5 in UTC+8
MaxLag == 1                  \* tenths that may pass between two statements of the thread
MaxAttempts == 2             \* sync attempts per process run
AppAttempts == 1             \* the same, in the specification of the whole application
MaxRuns == 2                 \* process starts
LongAttempts == 122          \* sync attempts of the long timing run
MaxCoord == 1                \* the window stays within 0..MaxCoord in x and y

----------------------------------------------------------------------------
(* Python / JSON values.                                                   *)
Num(n) == [k |-> "num", n |-> n]
Str(s) == [k |-> "str", s |-> s]
Bool(b) == [k |-> "bool", b |-> b]
Null == [k |-> "null"]
List2(a, b) == [k |-> "list", l |-> <<a, b>>]
Obj(o) == [k |-> "obj", o |-> o]

IsNumber(v) == v.k = "num"

\* Python truth value of a JSON value (bool(v)).
Truthy(v) ==
    CASE v.k = "bool" -> v.b
      [] v.k = "num" -> v.n # 0
      [] v.k = "str" -> v.s # ""
      [] v.k = "list" -> Len(v.l) > 0
      [] v.k = "obj" -> DOMAIN v.o # {}
      [] OTHER -> FALSE

\* d.get(key, default) on a dict.
Get(d, key, default) == IF key \in DOMAIN d THEN d[key] ELSE default

----------------------------------------------------------------------------
(* QColor: validity, the RGB part as "#rrggbb", and the alpha channel.     *)
RGBA(rgb, a) == [valid |-> TRUE, rgb |-> rgb, a |-> a]
InvalidColor == [valid |-> FALSE, rgb |-> "#000000", a |-> 255]

\* QColor(name): named colors, "#rrggbb", "#aarrggbb"; anything else is invalid.
QColor(name) ==
    CASE name = "white" -> RGBA("#ffffff", 255)
      [] name = "#ffffff" -> RGBA("#ffffff", 255)
      [] name = "#000000" -> RGBA("#000000", 255)
      [] name = "#ff0000" -> RGBA("#ff0000", 255)
      [] name = "#80ff0000" -> RGBA("#ff0000", 128)
      [] name = "transparent" -> RGBA("#000000", 0)
      [] OTHER -> InvalidColor

\* QColor.name(): the HexRgb format "#rrggbb"; alpha and validity are not part of it.
ColorName(c) == c.rgb

----------------------------------------------------------------------------
(* The in-memory settings as one record (for _load, _save and the claims). *)
Settings == [time_pt |-> time_pt, spacing |-> spacing, opacity |-> opacity,
             topmost |-> topmost, color |-> color, manual_offset |-> manual_offset,
             pos |-> pos]

\* DigitalClock.__init__, the default attributes; a new window is at (0, 0).
Defaults == [time_pt |-> Num(DefaultFont), spacing |-> Num(DefaultSpacing),
             opacity |-> Num(DefaultOpacity), topmost |-> Bool(TRUE),
             color |-> QColor("white"), manual_offset |-> Num(0),
             pos |-> <<0, 0>>]

\* The settings file.
NoFile == [k |-> "missing"]
Garbage == [k |-> "garbage"]           \* text that is not JSON (also the empty file)
Unreadable == [k |-> "unreadable"]     \* read_text raises (permissions, encoding)
Json(v) == [k |-> "json", v |-> v]

----------------------------------------------------------------------------
\* a faulty _save that writes the manual offset under a key _load does not read
SaveData_other_key(s) ==
    Obj([font |-> s.time_pt, opacity |-> s.opacity, spacing |-> s.spacing,
         color |-> Str(ColorName(s.color)), top |-> s.topmost,
         manual_offset |-> s.manual_offset, pos |-> List2(s.pos[1], s.pos[2])])

\* a faulty _save that writes the sum of both offsets under `offset`
SaveData_total_offset(s) ==
    Obj([font |-> s.time_pt, opacity |-> s.opacity, spacing |-> s.spacing,
         color |-> Str(ColorName(s.color)), top |-> s.topmost,
         offset |-> Num(s.manual_offset.n + offset), pos |-> List2(s.pos[1], s.pos[2])])

(* _save: the dict written to CONFIG_FILE, and the file after the write.   *)
SaveData(s) ==
    Obj([font |-> s.time_pt, opacity |-> s.opacity, spacing |-> s.spacing,
         color |-> Str(ColorName(s.color)), top |-> s.topmost,
         offset |-> s.manual_offset, pos |-> List2(s.pos[1], s.pos[2])])

\* io: "ok", or the write fails before ("open_fail") or after ("write_fail") the
\* file was truncated; _save catches the exception in both cases.
SaveOutcomes == {"ok", "open_fail", "write_fail"}

\* a faulty _save that updates the seven keys in the object the file holds
FileAfterSave_merge(s, file, io) ==
    CASE io = "ok" /\ file.k = "json" /\ file.v.k = "obj" ->
            LET new == SaveData(s).o
            IN  Json(Obj([key \in DOMAIN file.v.o \cup DOMAIN new |->
                            IF key \in DOMAIN new THEN new[key] ELSE file.v.o[key]]))
      [] io = "ok" -> Json(SaveData(s))
      [] io = "write_fail" -> Garbage
      [] OTHER -> file

FileAfterSave(s, file, io) ==
    CASE io = "ok" -> Json(SaveData(s))
      [] io = "write_fail" -> Garbage
      [] OTHER -> file

(* _load: the settings after loading `file` over the settings s.           *)
\* the `pos` part: self.move(QPoint(int(x), int(y))) for a two-element list
LoadPos(s, d) ==
    LET pv == Get(d, "pos", Null) IN
    IF Truthy(pv) /\ pv.k = "list" /\ Len(pv.l) = 2
    THEN [s EXCEPT !.pos = <<pv.l[1], pv.l[2]>>]
    ELSE s

\* a faulty _load that falls back to all defaults when a known key is missing
LoadFields_blanket(s, d) ==
    IF ~({"font", "opacity", "spacing", "color", "top", "offset"} \subseteq DOMAIN d) THEN s
    ELSE IF d.color.k # "str" THEN [s EXCEPT !.time_pt = d.font, !.opacity = d.opacity,
                                             !.spacing = d.spacing]
    ELSE LoadPos([s EXCEPT !.time_pt = d.font, !.opacity = d.opacity,
                           !.spacing = d.spacing, !.color = QColor(d.color.s),
                           !.topmost = d.top, !.manual_offset = d.offset], d)

\* a faulty _load that confines a numeric offset to the dialog's range [-200, 200]
LoadFields_clamped(s, d) ==
    LET cv == Get(d, "color", Str(ColorName(s.color)))
        ov == Get(d, "offset", Num(0))
        s3 == [s EXCEPT !.time_pt = Get(d, "font", s.time_pt),
                        !.opacity = Get(d, "opacity", s.opacity),
                        !.spacing = Get(d, "spacing", s.spacing)]
    IN  IF cv.k # "str" THEN s3
        ELSE LoadPos([s3 EXCEPT !.color = QColor(cv.s),
                                !.topmost = Get(d, "top", s.topmost),
                                !.manual_offset =
                                    IF ~IsNumber(ov) THEN ov
                                    ELSE IF ov.n > 2000 THEN Num(2000)
                                    ELSE IF ov.n < -2000 THEN Num(-2000) ELSE ov], d)

\* the assignments of lines 384-389, in order; QColor() of a value that is not
\* a string raises, and the fields assigned before it keep the file's values
LoadFields(s, d) ==
    LET cv == Get(d, "color", Str(ColorName(s.color)))
        s3 == [s EXCEPT !.time_pt = Get(d, "font", s.time_pt),
                        !.opacity = Get(d, "opacity", s.opacity),
                        !.spacing = Get(d, "spacing", s.spacing)]
    IN  IF cv.k # "str" THEN s3
        ELSE LoadPos([s3 EXCEPT !.color = QColor(cv.s),
                                !.topmost = Get(d, "top", s.topmost),
                                !.manual_offset = Get(d, "offset", Num(0))], d)

\* a faulty _load whose except clause catches json.JSONDecodeError only
LoadRaises_unless_json(file) == file.k = "unreadable" \/ (file.k = "json" /\ file.v.k # "obj")

\* whether _load lets an exception out: `except Exception` (line 410) catches all
LoadRaises(file) == FALSE

_load(s, file) ==
    CASE file.k = "missing" -> s                  \* CONFIG_FILE.exists() is false
      [] file.k = "unreadable" -> s               \* OSError, UnicodeDecodeError
      [] file.k = "garbage" -> s                  \* json.JSONDecodeError
      [] file.v.k # "obj" -> s                    \* d.get raises AttributeError
      [] OTHER -> LoadFields(s, file.v.o)

----------------------------------------------------------------------------
(* _now and the texts _tick derives from it.                               *)
\* a faulty _now that leaves the manual offset out
_now_without_manual == [utc |-> clock + offset, tz |-> ZoneTicks]

\* _now(): the aware datetime utc + offsets in the zone UTC+8
_now == [utc |-> clock + offset + manual_offset.n, tz |-> ZoneTicks]

\* the wall-clock reading of an aware datetime, in tenths since the epoch
Wall(d) == d.utc + d.tz
\* f"{now.year}年{now.month}月{now.day}日": the calendar day, as <<day number>>
DateText(d) == <<Wall(d) \div DayTicks>>
\* now.strftime("%H:%M:%S")
TimeText(d) ==
    LET sec == (Wall(d) % DayTicks) \div TickPeriod
    IN  <<sec \div 3600, (sec \div 60) % 60, sec % 60>>

NoText == <<>>                   \* QLabel("--")
NoDialog == [open |-> FALSE]
NoDt == [aware |-> TRUE, t |-> 0]

----------------------------------------------------------------------------
\* a faulty exception hook that calls sys.exit() without an exit code
ProcessEnds_code0(code) ==
    /\ app' = (IF code = 0 THEN "off" ELSE "crashed")
    /\ exit_code' = 0
    /\ dlg' = NoDialog
    /\ ntp_pc' = "none" /\ in_flight' = 0 /\ threads' = 0
    /\ UNCHANGED <<variant, runs, ntp_dt, entered, req_start, attempts, prev_offset,
                   outcome, synced, done_at>>

(* The end of the process: the daemon thread and the dialog go with it.    *)
ProcessEnds(code) ==
    /\ app' = (IF code = 0 THEN "off" ELSE "crashed")
    /\ exit_code' = code
    /\ dlg' = NoDialog
    /\ ntp_pc' = "none" /\ in_flight' = 0 /\ threads' = 0
    /\ UNCHANGED <<variant, runs, ntp_dt, entered, req_start, attempts, prev_offset,
                   outcome, synced, done_at>>

\* _apply_style raises on a font size, spacing or opacity that is not a number
StyleFault(s) == ~IsNumber(s.time_pt) \/ ~IsNumber(s.spacing) \/ ~IsNumber(s.opacity)

(* __main__ and DigitalClock.__init__: defaults, _load, _apply_style, the  *)
(* timer, the NTP thread, win.show().                                      *)
Start(max) ==
    /\ app # "running" /\ runs < max
    /\ LET s == _load(Defaults, config_file) IN
       /\ time_pt' = s.time_pt /\ spacing' = s.spacing /\ opacity' = s.opacity
       /\ topmost' = s.topmost /\ color' = s.color
       /\ manual_offset' = s.manual_offset /\ pos' = s.pos
       /\ offset' = 0 /\ drag_pos' = << >> /\ date_lbl' = NoText /\ time_lbl' = NoText
       /\ runs' = runs + 1 /\ saved' = "none" /\ dlg' = NoDialog
       /\ IF LoadRaises(config_file) \/ StyleFault(s)
          THEN /\ app' = "crashed" /\ exit_code' = 1
               /\ hidden' = TRUE /\ on_top' = FALSE
               /\ ntp_pc' = "none" /\ threads' = 0
          ELSE /\ app' = "running" /\ exit_code' = exit_code
               /\ hidden' = FALSE /\ on_top' = Truthy(s.topmost)
               /\ ntp_pc' = "call" /\ threads' = 1
       /\ ntp_dt' = NoDt /\ entered' = clock /\ req_start' = clock /\ in_flight' = 0
       /\ attempts' = 0 /\ prev_offset' = 0 /\ outcome' = "none" /\ synced' = FALSE
       /\ done_at' = -1
    /\ UNCHANGED <<variant, clock, config_file>>

(* _save as a step of an action: one write attempt with outcome io.        *)
Save(s, io) ==
    /\ config_file' = FileAfterSave(s, config_file, io)
    /\ saved' = (IF io = "ok" THEN "ok" ELSE "failed")

\* a faulty _exit that quits without _save
Exit_without_save(io) ==
    /\ app = "running"
    /\ ProcessEnds(0)
    /\ UNCHANGED <<clock, settings_vars, offset, ui_vars, config_file, saved>>

\* a faulty _exit that quits only when the write succeeded
Exit_unless_save_failed(io) ==
    /\ app = "running"
    /\ Save(Settings, io)
    /\ IF io = "ok" THEN ProcessEnds(0) ELSE UNCHANGED <<proc_vars, dlg, ntp_vars>>
    /\ UNCHANGED <<clock, settings_vars, offset, ui_vars>>

(* _exit: _save, QApplication.quit(), exit code 0.                         *)
Exit(io) ==
    /\ app = "running"
    /\ Save(Settings, io)
    /\ ProcessEnds(0)
    /\ UNCHANGED <<clock, settings_vars, offset, ui_vars>>

\* a faulty timer: the tick waits while a request is in flight
TimerFires_after_request == app = "running" /\ ntp_pc # "request"

\* QTimer(self, timeout=self._tick), started with a period of one second: the
\* event loop of the GUI thread calls _tick whatever the NTP thread is doing
TimerFires == app = "running"

(* _tick: the labels take the texts of _now().                             *)
Tick ==
    /\ TimerFires
    /\ IF IsNumber(manual_offset)
       THEN /\ date_lbl' = DateText(_now) /\ time_lbl' = TimeText(_now)
            /\ UNCHANGED <<proc_vars, dlg, ntp_vars>>
       ELSE /\ ProcessEnds(1)            \* TypeError in _now, sys.excepthook
            /\ UNCHANGED <<date_lbl, time_lbl>>
    /\ UNCHANGED <<clock, settings_vars, offset, drag_pos, pos, hidden, on_top,
                   config_file, saved>>

----------------------------------------------------------------------------
(* The NTP thread: fetch_ntp and _ntp_loop.                                *)

\* A response of the HTTP request: a Date header that parses to the aware instant t
\* ("date") or to a naive datetime ("naive": a header without zone information), no
\* Date header, a header that does not parse, or an exception of requests.
FailureKinds == {"nodate", "badparse", "timeout", "connerr", "reqerr"}
Response(kind, t) == [kind |-> kind, t |-> t]

\* email.utils.parsedate_to_datetime: the header has a resolution of one second
parsedate_to_datetime(r) ==
    [aware |-> r.kind = "date", t |-> (r.t \div TickPeriod) * TickPeriod]

\* a faulty fetch_ntp whose fallback is the naive datetime.utcnow()
fetch_ntp_naive_fallback(r, now) ==
    IF r.kind \in {"date", "naive"} THEN parsedate_to_datetime(r)
    ELSE [aware |-> FALSE, t |-> now]

\* a faulty fetch_ntp whose fallback is a clock value read before the request
fetch_ntp_stale_fallback(r, now) ==
    IF r.kind \in {"date", "naive"} THEN parsedate_to_datetime(r)
    ELSE [aware |-> TRUE, t |-> req_start]

\* fetch_ntp(): the parsed header, or the local UTC time read at the fallback (now)
fetch_ntp(r, now) ==
    IF r.kind \in {"date", "naive"} THEN parsedate_to_datetime(r)
    ELSE [aware |-> TRUE, t |-> now]

\* _ntp_loop, top of the loop: fetch_ntp is called and issues requests.head
NtpStart(max) ==
    /\ app = "running" /\ ntp_pc = "call" /\ attempts < max
    /\ ntp_pc' = "request" /\ entered' = clock /\ req_start' = clock
    /\ in_flight' = in_flight + 1 /\ attempts' = attempts + 1
    /\ prev_offset' = offset /\ outcome' = "pending"
    /\ UNCHANGED <<proc_vars, clock, settings_vars, offset, ui_vars, config_file, saved,
                   dlg, ntp_dt, threads, synced, done_at>>

\* the request ends with response r, and fetch_ntp returns
NtpRespond(r) ==
    /\ app = "running" /\ ntp_pc = "request"
    /\ r.kind = "timeout" => clock = req_start + TimeoutTicks
    /\ ntp_dt' = fetch_ntp(r, clock)
    /\ ntp_pc' = "returned" /\ entered' = clock
    /\ in_flight' = in_flight - 1 /\ outcome' = r.kind
    /\ synced' = (synced \/ r.kind = "date")
    /\ UNCHANGED <<proc_vars, clock, settings_vars, offset, ui_vars, config_file, saved,
                   dlg, req_start, threads, attempts, prev_offset, done_at>>

\* a faulty offset computation with the operands exchanged
OffsetAfter_reversed(dt, current_utc, old) ==
    IF dt.aware THEN current_utc - dt.t ELSE old

\* (ntp_dt - current_utc).total_seconds(); subtracting an aware datetime from a
\* naive one raises TypeError, which the loop's except clause catches
OffsetAfter(dt, current_utc, old) == IF dt.aware THEN dt.t - current_utc ELSE old

\* faulty loops: the except clause ends the thread; the pause is skipped
AfterAttempt_break == IF outcome = "naive" THEN "dead" ELSE "sleep"
AfterAttempt_continue == "call"

\* where the thread goes after the try statement of the loop body
AfterAttempt == "sleep"

\* lines 292-297: current_utc, self.offset, then time.sleep(600) begins
NtpCompute ==
    /\ app = "running" /\ ntp_pc = "returned"
    /\ offset' = OffsetAfter(ntp_dt, clock, offset)
    /\ ntp_pc' = AfterAttempt /\ entered' = clock /\ done_at' = clock
    /\ UNCHANGED <<proc_vars, clock, settings_vars, ui_vars, config_file, saved, dlg,
                   ntp_dt, req_start, in_flight, threads, attempts, prev_offset, outcome,
                   synced>>

\* a faulty pause: time.sleep(0)
SleepOver_at_once == clock >= entered

\* time.sleep(600) is over when 600 s have passed
SleepOver == clock >= entered + SleepTicks

NtpWake ==
    /\ app = "running" /\ ntp_pc = "sleep" /\ SleepOver
    /\ ntp_pc' = "call" /\ entered' = clock
    /\ UNCHANGED <<proc_vars, clock, settings_vars, offset, ui_vars, config_file, saved,
                   dlg, ntp_dt, req_start, in_flight, threads, attempts, prev_offset,
                   outcome, synced, done_at>>

(* Time passes.  The request ends within its timeout and the sleep ends    *)
(* when it is due; between two statements of the thread at most MaxLag.    *)
Deadline ==
    CASE ntp_pc = "request" -> entered + TimeoutTicks
      [] ntp_pc = "sleep" -> entered + SleepTicks
      [] OTHER -> entered + MaxLag

Advance(d) ==
    /\ app = "running" /\ d > 0
    /\ clock + d <= Deadline
    /\ clock' = clock + d
    /\ UNCHANGED <<proc_vars, settings_vars, offset, ui_vars, config_file, saved, dlg,
                   ntp_vars>>

----------------------------------------------------------------------------
(* The settings dialog.                                                    *)

\* QDoubleSpinBox.setRange(mn, mx) and setValue(val): the value is kept in range
Clamp(mn, mx, v) == IF v < mn THEN mn ELSE IF v > mx THEN mx ELSE v

\* the ranges of the four slider/spin pairs (lines 508-511), in tenths
SpinRange == [font |-> <<10, 640>>, opac |-> <<300, 1000>>,
              space |-> <<0, 200>>, off |-> <<-2000, 2000>>]
SpinValue(name, v) == Clamp(SpinRange[name][1], SpinRange[name][2], v)

\* _apply_style: the window flag follows self.topmost; a changed flag shows the window
StyleOnTop(top) == Truthy(top)
StyleHidden(top, was_on_top, was_hidden) ==
    IF StyleOnTop(top) # was_on_top THEN FALSE ELSE was_hidden

\* _open_settings up to dlg.exec(): SettingsDialog.__init__.  int(val * 10) and
\* setValue(val) raise on a value that is not a number.
OpenSettings ==
    /\ app = "running" /\ ~dlg.open
    /\ IF IsNumber(manual_offset) /\ topmost.k = "bool"
       THEN /\ dlg' = [open |-> TRUE,
                       font_size |-> time_pt, opacity |-> opacity, spacing |-> spacing,
                       color |-> color, manual_offset |-> manual_offset,
                       chk_top |-> topmost.b,
                       e_font |-> SpinValue("font", time_pt.n),
                       e_opac |-> SpinValue("opac", opacity.n),
                       e_space |-> SpinValue("space", spacing.n),
                       e_off |-> SpinValue("off", manual_offset.n)]
            /\ UNCHANGED <<proc_vars, ntp_vars>>
       ELSE ProcessEnds(1)
    /\ UNCHANGED <<clock, settings_vars, offset, ui_vars, config_file, saved>>

\* the user sets a spin box (or drags its slider) to v
SpinEdit(name, v) ==
    /\ app = "running" /\ dlg.open
    /\ dlg' = CASE name = "font" -> [dlg EXCEPT !.e_font = SpinValue(name, v)]
                [] name = "opac" -> [dlg EXCEPT !.e_opac = SpinValue(name, v)]
                [] name = "space" -> [dlg EXCEPT !.e_space = SpinValue(name, v)]
                [] OTHER -> [dlg EXCEPT !.e_off = SpinValue(name, v)]
    /\ dlg' # dlg
    /\ UNCHANGED <<proc_vars, clock, settings_vars, offset, ui_vars, config_file, saved,
                   ntp_vars>>

\* the user toggles the "window on top" check box
ToggleTop ==
    /\ app = "running" /\ dlg.open
    /\ dlg' = [dlg EXCEPT !.chk_top = ~dlg.chk_top]
    /\ UNCHANGED <<proc_vars, clock, settings_vars, offset, ui_vars, config_file, saved,
                   ntp_vars>>

\* _choose_color: QColorDialog.getColor returns c; an invalid c is a cancelled choice
ChooseColor(c) ==
    /\ app = "running" /\ dlg.open
    /\ dlg' = IF c.valid THEN [dlg EXCEPT !.color = c] ELSE dlg
    /\ UNCHANGED <<proc_vars, clock, settings_vars, offset, ui_vars, config_file, saved,
                   ntp_vars>>

\* SettingsDialog.accept: the Notes file copies the spin boxes to the attributes
\* (TimeClockWindowsNotes.py 762-774), the other file only calls super().accept()
Accepted(d) ==
    IF variant = "Notes"
    THEN [d EXCEPT !.font_size = Num(d.e_font), !.opacity = Num(d.e_opac),
                   !.spacing = Num(d.e_space), !.manual_offset = Num(d.e_off)]
    ELSE d

\* a faulty accept that stores the dialog's manual offset in self.offset
Accept_into_offset(io) ==
    /\ app = "running" /\ dlg.open
    /\ LET d == Accepted(dlg) IN
       /\ time_pt' = d.font_size /\ opacity' = d.opacity /\ spacing' = d.spacing
       /\ color' = d.color /\ manual_offset' = manual_offset
       /\ offset' = d.manual_offset.n
       /\ topmost' = Bool(d.chk_top)
       /\ on_top' = StyleOnTop(Bool(d.chk_top))
       /\ hidden' = StyleHidden(Bool(d.chk_top), on_top, hidden)
    /\ UNCHANGED <<proc_vars, clock, drag_pos, pos, date_lbl, time_lbl, ntp_vars>>
    /\ Save(Settings', io)
    /\ dlg' = NoDialog

\* dlg.exec() returns Accepted: lines 316-345
Accept(io) ==
    /\ app = "running" /\ dlg.open
    /\ LET d == Accepted(dlg) IN
       /\ time_pt' = d.font_size /\ opacity' = d.opacity /\ spacing' = d.spacing
       /\ color' = d.color /\ manual_offset' = d.manual_offset
       /\ topmost' = Bool(d.chk_top)
       /\ on_top' = StyleOnTop(Bool(d.chk_top))
       /\ hidden' = StyleHidden(Bool(d.chk_top), on_top, hidden)
    /\ UNCHANGED <<proc_vars, clock, offset, drag_pos, pos, date_lbl, time_lbl, ntp_vars>>
    /\ Save(Settings', io)
    /\ dlg' = NoDialog

\* a faulty _open_settings that applies the dialog's offset whatever exec() returns
Cancel_applies_offset ==
    /\ app = "running" /\ dlg.open
    /\ manual_offset' = Num(dlg.e_off)
    /\ dlg' = NoDialog
    /\ UNCHANGED <<proc_vars, clock, time_pt, spacing, opacity, topmost, color, offset,
                   ui_vars, config_file, saved, ntp_vars>>

\* dlg.exec() returns Rejected
Cancel ==
    /\ app = "running" /\ dlg.open
    /\ dlg' = NoDialog
    /\ UNCHANGED <<proc_vars, clock, settings_vars, offset, ui_vars, config_file, saved,
                   ntp_vars>>

----------------------------------------------------------------------------
(* Tray icon, window and mouse.                                            *)

\* _handle_tray_activated(reason) and the menu action "show/hide"
TrayReasons == {"Trigger", "Context", "DoubleClick", "MiddleClick"}
\* a faulty _handle_tray_activated that toggles the window on every reason
TrayActivated_any_reason(reason) ==
    /\ app = "running"
    /\ hidden' = ~hidden
    /\ UNCHANGED <<proc_vars, clock, settings_vars, offset, drag_pos, pos, on_top,
                   date_lbl, time_lbl, config_file, saved, dlg, ntp_vars>>

TrayActivated(reason) ==
    /\ app = "running"
    /\ hidden' = IF reason = "Trigger" THEN ~hidden ELSE hidden
    /\ UNCHANGED <<proc_vars, clock, settings_vars, offset, drag_pos, pos, on_top,
                   date_lbl, time_lbl, config_file, saved, dlg, ntp_vars>>

ToggleVisible ==
    /\ app = "running"
    /\ hidden' = ~hidden
    /\ UNCHANGED <<proc_vars, clock, settings_vars, offset, drag_pos, pos, on_top,
                   date_lbl, time_lbl, config_file, saved, dlg, ntp_vars>>

\* a faulty closeEvent that accepts the event: the last window closes and Qt quits
CloseEvent_accepts ==
    /\ app = "running" /\ ~hidden /\ ~dlg.open
    /\ hidden' = TRUE
    /\ ProcessEnds(0)
    /\ UNCHANGED <<clock, settings_vars, offset, drag_pos, pos, on_top,
                   date_lbl, time_lbl, config_file, saved>>

\* closeEvent: e.ignore(); self.hide()
CloseEvent ==
    /\ app = "running" /\ ~hidden /\ ~dlg.open
    /\ hidden' = TRUE
    /\ UNCHANGED <<proc_vars, clock, settings_vars, offset, drag_pos, pos, on_top,
                   date_lbl, time_lbl, config_file, saved, dlg, ntp_vars>>

\* a point is <<x, y>>; None is <<>>.  bool(QPoint) is False for None and for the
\* null point (0, 0).
NoPoint == <<>>
PointTruthy(p) == p # NoPoint /\ p # <<0, 0>>

\* mousePressEvent(e): the window gets mouse events while shown and not blocked
\* by the modal dialog
MousePress(button, p) ==
    /\ app = "running" /\ ~hidden /\ ~dlg.open
    /\ drag_pos' = IF button = "Left" THEN p ELSE NoPoint
    /\ UNCHANGED <<proc_vars, clock, settings_vars, offset, pos, hidden, on_top,
                   date_lbl, time_lbl, config_file, saved, dlg, ntp_vars>>

OnScreen(q) == q[1] \in 0..MaxCoord /\ q[2] \in 0..MaxCoord

MouseMove(p) ==
    /\ app = "running" /\ ~hidden /\ ~dlg.open
    /\ IF PointTruthy(drag_pos)
       THEN /\ pos' = <<pos[1] + p[1] - drag_pos[1], pos[2] + p[2] - drag_pos[2]>>
            /\ OnScreen(pos')
            /\ drag_pos' = p
       ELSE UNCHANGED <<pos, drag_pos>>
    /\ UNCHANGED <<proc_vars, clock, settings_vars, offset, hidden, on_top,
                   date_lbl, time_lbl, config_file, saved, dlg, ntp_vars>>

MouseRelease ==
    /\ app = "running" /\ ~hidden /\ ~dlg.open
    /\ drag_pos' = NoPoint
    /\ UNCHANGED <<proc_vars, clock, settings_vars, offset, pos, hidden, on_top,
                   date_lbl, time_lbl, config_file, saved, dlg, ntp_vars>>

----------------------------------------------------------------------------
(* Inputs of the model.                                                    *)

\* contents of the settings file found at the first start
FullFile == [font |-> Num(120), opacity |-> Num(800), spacing |-> Num(30),
             color |-> Str("#ff0000"), top |-> Bool(FALSE), offset |-> Num(35),
             pos |-> List2(1, 0)]
Files ==
    { NoFile, Garbage, Json(List2(1, 2)), Json(Obj(FullFile)),
      \* an unknown key, `opacity` missing, an offset outside the dialog's range
      Json(Obj([font |-> Num(120), theme |-> Str("dark"), offset |-> Num(2500)])),
      \* colors with an alpha channel, and a name that is no color
      Json(Obj([color |-> Str("#80ff0000")])),
      Json(Obj([color |-> Str("bogus"), offset |-> Str("abc")])) }

\* files for _load: every subset of the keys of a file with one unknown key, and
\* files with one value of the wrong type each
KnownKeys == {"font", "opacity", "spacing", "color", "top", "offset", "pos"}
SampleFile == [font |-> Num(120), opacity |-> Num(800), spacing |-> Num(30),
               color |-> Str("#ff0000"), top |-> Bool(FALSE), offset |-> Num(35),
               pos |-> List2(1, 0), theme |-> Str("dark")]
Restrict(f, keys) == [key \in keys |-> f[key]]
SubsetFiles == {Json(Obj(Restrict(SampleFile, keys))) : keys \in SUBSET DOMAIN SampleFile}
IllTypedFiles ==
    { Json(Obj([FullFile EXCEPT !.font = Str("big")])),
      Json(Obj([FullFile EXCEPT !.opacity = Null])),
      Json(Obj([FullFile EXCEPT !.spacing = Str("wide")])),
      Json(Obj([FullFile EXCEPT !.offset = Str("abc")])),
      Json(Obj([FullFile EXCEPT !.offset = Null])),
      Json(Obj([FullFile EXCEPT !.top = Str("yes")])),
      Json(Obj([FullFile EXCEPT !.color = Null])),
      Json(Obj([FullFile EXCEPT !.pos = Str("1,0")])) }
LoadFiles ==
    {NoFile, Garbage, Unreadable, Json(List2(1, 2))} \cup SubsetFiles \cup IllTypedFiles

\* files whose values lie inside and outside the ranges of the dialog's controls
RangeFiles ==
    { Json(Obj(FullFile)),
      Json(Obj([FullFile EXCEPT !.offset = Num(2500)])),
      Json(Obj([font |-> Num(5), opacity |-> Num(200), offset |-> Num(-2500)])) }

\* server instants, relative to the local clock when the response arrives
Skews == {-35, 0, 35}
ResponsesOf(kinds, skews) ==
    {Response(kind, clock) : kind \in kinds \ {"date"}}
        \cup {Response("date", clock + s) : s \in IF "date" \in kinds THEN skews ELSE {}}
AllKinds == FailureKinds \cup {"date", "naive"}

\* what the user can enter and pick
SpinNames == DOMAIN SpinRange
SpinInputs == {150, 2500}
ColorChoices == {RGBA("#ff0000", 255), InvalidColor}
Points == {<<0, 0>>, <<1, 2>>, <<2, 2>>}
Buttons == {"Left", "Right"}
\* mouse positions of a drag, the origin of the screen among them
DragPoints == {<<0, 0>>, <<1, 0>>, <<1, 1>>}

InitWith(files, variants, clocks) ==
    /\ variant \in variants /\ app = "off" /\ exit_code = -1 /\ runs = 0
    /\ clock \in clocks
    /\ time_pt = Defaults.time_pt /\ spacing = Defaults.spacing
    /\ opacity = Defaults.opacity /\ topmost = Defaults.topmost
    /\ color = Defaults.color /\ manual_offset = Defaults.manual_offset
    /\ offset = 0 /\ drag_pos = NoPoint /\ pos = Defaults.pos
    /\ hidden = TRUE /\ on_top = FALSE /\ date_lbl = NoText /\ time_lbl = NoText
    /\ config_file \in files /\ saved = "none" /\ dlg = NoDialog
    /\ ntp_pc = "none" /\ ntp_dt = NoDt /\ entered = clock /\ req_start = clock
    /\ in_flight = 0 /\ threads = 0 /\ attempts = 0 /\ prev_offset = 0
    /\ outcome = "none" /\ synced = FALSE /\ done_at = -1

NtpStep(max, kinds, skews) ==
    \/ NtpStart(max)
    \/ \E r \in ResponsesOf(kinds, skews) : NtpRespond(r)
    \/ NtpCompute
    \/ NtpWake

DialogStep(names, inputs, colors, ios) ==
    \/ OpenSettings
    \/ \E name \in names, v \in inputs : SpinEdit(name, v)
    \/ ToggleTop
    \/ \E c \in colors : ChooseColor(c)
    \/ \E io \in ios : Accept(io)
    \/ Cancel

WindowStep(points) ==
    \/ \E reason \in TrayReasons : TrayActivated(reason)
    \/ ToggleVisible
    \/ CloseEvent
    \/ \E b \in Buttons, p \in points : MousePress(b, p)
    \/ \E p \in points : MouseMove(p)
    \/ MouseRelease

\* the amounts of time that may pass in one step: part of the request's duration,
\* the whole sleep, or a lag between two statements of the thread
TimeStep(request_steps, lags) ==
    \E d \in (CASE ntp_pc = "request" -> request_steps
                [] ntp_pc = "sleep" -> {SleepTicks}
                [] OTHER -> lags) : Advance(d)

(* The whole application, on few inputs.                                   *)
Init == InitWith({Json(Obj(FullFile))}, {"Windows", "Notes"}, {StartClock})

Next ==
    \/ Start(1)
    \/ \E io \in {"ok", "open_fail"} : Exit(io)
    \/ Tick
    \/ NtpStep(AppAttempts, {"date", "naive"}, {35})
    \/ TimeStep({TimeoutTicks}, {})
    \/ DialogStep({"off"}, {150}, {RGBA("#ff0000", 255)}, {"ok"})
    \/ WindowStep({<<1, 2>>, <<2, 2>>})

Spec == Init /\ [][Next]_vars

(* The clock and the NTP thread alone: every response, lags, two attempts. *)
InitSync ==
    InitWith({Json(Obj(FullFile))}, {"Windows"}, {StartClock})

NextSync ==
    \/ Start(1)
    \/ Tick
    \/ NtpStep(MaxAttempts, AllKinds, Skews)
    \/ TimeStep({TimeoutTicks}, 1..MaxLag)

SpecSync == InitSync /\ [][NextSync]_vars

(* The NTP thread under the user's actions: dialog, tray, window, mouse.    *)
InitLoop == InitWith({Json(Obj(FullFile))}, {"Notes"}, {StartClock})

NextLoop ==
    \/ Start(1)
    \/ Exit("ok")
    \/ NtpStep(MaxAttempts, {"date", "naive", "timeout"}, {35})
    \/ TimeStep({TimeoutTicks}, {})
    \/ DialogStep({"off"}, {150}, {RGBA("#ff0000", 255)}, {"ok"})
    \/ WindowStep({<<1, 2>>, <<2, 2>>})

SpecLoop == InitLoop /\ [][NextLoop]_vars

(* Startup on every kind of settings file, the first ticks, dialog, exit.  *)
InitLoad == InitWith(LoadFiles, {"Windows"}, {StartClock})

NextLoad ==
    \/ Start(1)
    \/ Tick
    \/ OpenSettings
    \/ Cancel
    \/ Exit("ok")

SpecLoad == InitLoad /\ [][NextLoad]_vars

(* Synchronise, change settings, save, exit and start again.              *)
InitPersist == InitWith({NoFile, Json(Obj(FullFile))}, {"Windows", "Notes"}, {StartClock})

NextPersist ==
    \/ Start(MaxRuns)
    \/ \E io \in SaveOutcomes : Exit(io)
    \/ NtpStep(AppAttempts, {"date", "timeout"}, {35})
    \/ TimeStep({TimeoutTicks}, {})
    \/ DialogStep({"off"}, {150}, {RGBA("#ff0000", 255)}, SaveOutcomes)

SpecPersist == InitPersist /\ [][NextPersist]_vars

(* The manual offset from the file to the labels, the dialog and back.     *)
InitOffset == InitWith(RangeFiles, {"Windows", "Notes"}, {StartClock})

NextOffset ==
    \/ Start(MaxRuns)
    \/ \E io \in SaveOutcomes : Exit(io)
    \/ Tick
    \/ OpenSettings
    \/ \E v \in SpinInputs : SpinEdit("off", v)
    \/ \E io \in SaveOutcomes : Accept(io)
    \/ Cancel

SpecOffset == InitOffset /\ [][NextOffset]_vars

(* Dragging the window: presses, moves and releases, the window hidden and *)
(* shown, the dialog in the way, the position saved at the exit.           *)
InitDrag == InitWith({NoFile, Json(Obj(FullFile))}, {"Windows"}, {StartClock})

NextDrag ==
    \/ Start(1)
    \/ Exit("ok")
    \/ \E b \in Buttons, p \in DragPoints : MousePress(b, p)
    \/ \E p \in DragPoints : MouseMove(p)
    \/ MouseRelease
    \/ ToggleVisible
    \/ OpenSettings
    \/ Cancel
    \/ Tick

SpecDrag == InitDrag /\ [][NextDrag]_vars

(* The timing of the loop over many hours, under a simulated clock: time   *)
(* passes only while a request is in flight and while the thread sleeps.   *)
InitLong == InitWith({NoFile}, {"Windows"}, {StartClock})

NextLong ==
    \/ Start(1)
    \/ NtpStep(LongAttempts, {"date", "timeout"}, {0})
    \/ TimeStep({TimeoutTicks}, {})

SpecLong == InitLong /\ [][NextLong]_vars

(* Settings, dialog and restart: the file across two process runs.         *)
InitSettings == InitWith(Files, {"Windows", "Notes"}, {StartClock})

NextSettings ==
    \/ Start(MaxRuns)
    \/ \E io \in SaveOutcomes : Exit(io)
    \/ DialogStep({"font", "off"}, SpinInputs, ColorChoices, SaveOutcomes)
    \/ \E p \in {<<1, 2>>, <<2, 2>>} : MousePress("Left", p) \/ MouseMove(p)

SpecSettings == InitSettings /\ [][NextSettings]_vars

(* Settings, dialog, drag and exit within one process run.                 *)
InitWrite == InitWith(Files, {"Windows", "Notes"}, {StartClock})

NextWrite ==
    \/ Start(1)
    \/ \E io \in SaveOutcomes : Exit(io)
    \/ DialogStep({"font", "off"}, SpinInputs, ColorChoices, SaveOutcomes)
    \/ \E p \in {<<1, 2>>, <<2, 2>>} : MousePress("Left", p) \/ MouseMove(p)

SpecWrite == InitWrite /\ [][NextWrite]_vars

----------------------------------------------------------------------------
(* Properties.                                                             *)

AttemptDone == app = "running" /\ ntp_pc = "sleep"
Failed == outcome \in FailureKinds

\* C1 (as stated): a failed sync attempt (timeout, connection error, other request
\* error, no Date header, unparseable Date header) leaves network_offset equal to
\* the value it had before the attempt.
C1_FailureKeepsOffset ==
    (AttemptDone /\ (Failed \/ outcome = "naive")) => offset = prev_offset

\* C1 (amended): after a failed attempt network_offset is the fallback instant
\* returned by fetch_ntp minus the instant the loop reads afterwards, whatever the
\* prior value: never positive, and no further from zero than the time between the
\* two clock reads.  Only a Date header that parses to a naive datetime, which
\* makes the subtraction raise, leaves network_offset as it was.
C1_FailureResetsOffset ==
    AttemptDone =>
        /\ Failed => (offset = ntp_dt.t - done_at /\ offset <= 0 /\ offset >= -MaxLag)
        /\ outcome = "naive" => offset = prev_offset

\* a failure after a successful sync had set a non-zero offset
C1_Witness == AttemptDone /\ Failed /\ prev_offset = 35 /\ offset = 0

\* C2 (as stated): on a successful attempt network_offset is the server instant
\* minus the local instant recorded before the request was issued, whatever the
\* request's duration.
C2_OffsetFromInstantBefore ==
    (AttemptDone /\ outcome = "date") => offset = ntp_dt.t - req_start

\* C2 (amended): on a successful attempt network_offset is the server instant
\* minus the local instant read after fetch_ntp has returned, so the time the
\* request took is subtracted; when no time passes between issuing the request and
\* that read, it is the server instant minus the instant of the request (0 for an
\* equal timestamp, 3.5 for one 3.5 s ahead).
C2_OffsetFromInstantAfter ==
    (AttemptDone /\ outcome = "date") =>
        /\ offset = ntp_dt.t - done_at
        /\ offset = (ntp_dt.t - req_start) - (done_at - req_start)
        /\ done_at = req_start => offset = ntp_dt.t - req_start

\* an immediate response 3.5 s ahead of the local clock gives 3.5
C2_Witness ==
    AttemptDone /\ outcome = "date" /\ done_at = req_start
        /\ ntp_dt.t = req_start + 35 /\ offset = 35

\* the instant on display: the labels read back as tenths since the epoch
Shown(d, tm) == d[1] * DayTicks + (tm[1] * 3600 + tm[2] * 60 + tm[3]) * TickPeriod

\* C3: a tick that completes shows system_instant_utc + network_offset +
\* manual_offset in UTC+8 (to the second that strftime prints), with the offsets
\* current at that tick, and changes nothing but the two labels.
C3_DisplayTime ==
    [][(Tick /\ IsNumber(manual_offset)) =>
          /\ LET wall == clock + offset + manual_offset.n + ZoneTicks
                 shown == Shown(date_lbl', time_lbl')
             IN  shown <= wall /\ wall < shown + TickPeriod
          /\ time_lbl'[1] \in 0..23 /\ time_lbl'[2] \in 0..59 /\ time_lbl'[3] \in 0..59
          /\ UNCHANGED <<proc_vars, clock, settings_vars, offset, drag_pos, pos, hidden,
                         on_top, config_file, saved, dlg, ntp_vars>>]_vars

\* a tick with both offsets at 3.5 s showed the next day, 00:00:04, at a system
\* time of 23:59:57.5 (UTC+8) of the day before
C3_Witness ==
    /\ app = "running" /\ clock = StartClock
    /\ offset = 35 /\ manual_offset = Num(35)
    /\ date_lbl = <<1>> /\ time_lbl = <<0, 0, 4>>

\* C4: while every sync attempt of the run has failed, network_offset is zero
\* (the code leaves it at minus the time that passed between fetch_ntp's fallback
\* clock read and the loop's own clock read).
C4_ZeroWhileAllFailed == (app = "running" /\ ~synced) => offset = 0

\* the 600-second interval, counted from the start of the loop, in which the
\* latest attempt started
IntervalOfAttempt == (req_start - StartClock) \div SleepTicks

\* C5 (as stated): exactly one attempt starts in each consecutive 600-second
\* interval: the n-th attempt starts in the n-th interval, whatever the attempts'
\* outcomes and durations.
C5_OneAttemptPerInterval ==
    (app = "running" /\ attempts >= 1) => IntervalOfAttempt = attempts - 1

\* C5 (amended): each attempt after the first starts exactly 600 s after the
\* previous attempt completed, so consecutive attempts start between 600 s and
\* 605 s apart (600 s plus the duration of the earlier attempt): no 600-second
\* interval holds two attempts, and the n-th attempt starts between 600 (n-1) and
\* 605 (n-1) seconds after the first: in the n-th interval for the first 120
\* attempts (20 hours), later possibly one interval further on.
C5_FixedPauseAfterEachAttempt ==
    (app = "running" /\ attempts >= 1) =>
        /\ req_start - StartClock >= SleepTicks * (attempts - 1)
        /\ req_start - StartClock <= (SleepTicks + TimeoutTicks) * (attempts - 1)
        /\ (ntp_pc = "request" /\ attempts >= 2) => req_start = done_at + SleepTicks
        /\ (ntp_pc \in {"returned", "sleep"}) => entered - req_start <= TimeoutTicks
        /\ attempts <= SleepTicks \div TimeoutTicks => IntervalOfAttempt = attempts - 1

\* after 120 attempts of 5 s each, attempt 121 starts 121 * 600 s after the first:
\* no attempt started in the interval before
C5_Witness ==
    /\ app = "running" /\ attempts = 121 /\ ntp_pc = "request"
    /\ req_start - StartClock = 121 * SleepTicks

\* C7: one NTP thread, at most one request in flight, and an attempt starts only
\* when no request is in flight and, after the first, when the previous attempt
\* has completed and its 600-second pause has elapsed.
C7_OneRequestAtATime ==
    [][/\ app = "running" => (threads = 1 /\ in_flight \in {0, 1}
                               /\ (in_flight = 1 <=> ntp_pc = "request"))
       /\ (app = "running" /\ attempts' = attempts + 1) =>
             /\ in_flight = 0 /\ in_flight' = 1
             /\ attempts >= 1 => (done_at >= req_start /\ clock >= done_at + SleepTicks)
       /\ threads' > threads => (app # "running" /\ threads' = 1)]_vars

\* the second attempt's request is in flight, 600 s or more after the first completed
C7_Witness ==
    /\ app = "running" /\ attempts = 2 /\ in_flight = 1
    /\ req_start >= done_at + SleepTicks /\ done_at > StartClock

\* a tick that completes: the labels are set, the process goes on, and neither the
\* clock nor the NTP thread has moved
TickCompletes == Tick /\ app' = "running" /\ UNCHANGED <<clock, ntp_vars>>

\* C9: a tick can start and complete in every state of the NTP thread (request in
\* flight, waiting for the timeout, returned, sleeping); it issues no request and
\* leaves the thread and the clock as they are.
C9_TickNeverWaits ==
    (app = "running" /\ IsNumber(manual_offset)) =>
        /\ ENABLED TickCompletes
        /\ ntp_pc \in {"call", "request", "returned", "sleep"}

\* the display was updated while the request had been in flight for the full 5 s
C9_Witness ==
    /\ app = "running" /\ ntp_pc = "request" /\ clock = req_start + TimeoutTicks
    /\ date_lbl = DateText(_now) /\ time_lbl = TimeText(_now)

\* the positions of the NTP thread inside its loop
InLoop == {"call", "request", "returned", "sleep"}

\* the actions of the user: dialog, tray, window, mouse
UserAction ==
    \/ DialogStep(SpinNames, SpinInputs, ColorChoices, SaveOutcomes)
    \/ WindowStep(Points)

\* C6: while the process runs the NTP thread is in its loop; after an attempt,
\* whatever its outcome (also an exception while the offset is computed), it
\* pauses: it leaves the pause only when 600 s have passed since the attempt
\* ended, and then only to the call of the next attempt; no user action moves or
\* stops the thread, and when the pause is over the thread can go on.
C6_LoopNeverStops ==
    [][/\ app = "running" => (ntp_pc \in InLoop /\ threads = 1)
       /\ (app' = "running" /\ ntp_pc = "returned" /\ ntp_pc' # "returned") =>
             (ntp_pc' = "sleep" /\ entered' = clock /\ done_at' = clock)
       /\ (app' = "running" /\ ntp_pc = "sleep" /\ ntp_pc' # "sleep") =>
             (ntp_pc' = "call" /\ clock = done_at + SleepTicks)
       /\ (app' = "running" /\ ntp_pc = "call" /\ ntp_pc' # "call") =>
             (ntp_pc' = "request" /\ attempts' = attempts + 1)
       /\ (app = "running" /\ ntp_pc = "returned") => ENABLED NtpCompute
       /\ (app = "running" /\ ntp_pc = "sleep" /\ clock = done_at + SleepTicks) =>
             ENABLED NtpWake
       /\ UNCHANGED ntp_vars \/ app' # "running" \/ ~UserAction]_vars

\* the second attempt has started 600 s after the first one raised while the offset
\* was computed, with the window hidden and a dialog accepted in between
C6_Witness ==
    /\ app = "running" /\ attempts = 2 /\ ntp_pc = "request"
    /\ outcome = "pending" /\ clock = done_at + SleepTicks
    /\ hidden /\ saved = "ok" /\ offset = prev_offset

\* C8: offset changes only where the NTP thread assigns it (the statement after
\* fetch_ntp) and where __init__ sets it to 0: load, save, accept, cancel, tick,
\* drag, tray actions and exit leave it unchanged.
C8_OffsetSingleWriter ==
    [][/\ offset' # offset => (NtpCompute \/ (Start(MaxRuns) /\ offset' = 0))
       /\ offset' = offset
             \/ ~(Tick \/ UserAction \/ (\E io \in SaveOutcomes : Exit(io))
                     \/ TimeStep({TimeoutTicks}, 1..MaxLag))]_vars

\* a synchronised offset has survived an accepted dialog, a drag, hide and a tick
C8_Witness ==
    /\ app = "running" /\ offset = 35 /\ synced /\ saved = "ok" /\ hidden
    /\ pos # <<1, 0>> /\ time_lbl # NoText /\ manual_offset = Num(150)

\* a start that follows a normal exit whose _save succeeded
RestartAfterSave == app = "off" /\ saved = "ok" /\ runs' = runs + 1

\* the settings as the program uses the color: by its name "#rrggbb"
Named(s) == [s EXCEPT !.color = ColorName(s.color)]

\* C10 (as stated): the settings loaded by a fresh start equal, in every field, the
\* settings saved at the exit before.
C10_RoundTrip ==
    [][RestartAfterSave => Settings' = Settings]_vars

\* C10 (amended): the settings loaded by a fresh start equal the settings saved at
\* the exit before in font, opacity, spacing, topmost flag, manual offset,
\* position and in the color's "#rrggbb" name; the color itself is equal when it
\* was valid and opaque (its alpha channel and validity are not saved).
C10_RoundTripByColorName ==
    [][RestartAfterSave =>
          /\ Named(Settings') = Named(Settings)
          /\ (color.valid /\ color.a = 255) => Settings' = Settings
          /\ config_file' = config_file /\ config_file = Json(SaveData(Settings))]_vars

\* the second run has loaded what the first run saved: an offset entered in the
\* dialog, a chosen color and a dragged window
C10_Witness ==
    /\ runs = 2 /\ app = "running" /\ saved = "none"
    /\ manual_offset = Num(150) /\ color = RGBA("#ff0000", 255) /\ pos = <<1, 0>>
    /\ time_pt = Num(120) /\ config_file = Json(SaveData(Settings))

\* a process start: __init__ runs _load on the file as it is
Starts == runs' = runs + 1

\* C11: a start on a settings file that is missing, unreadable, not JSON, or JSON
\* but no object leaves every setting at its default and the window in place, and
\* the start goes on: _load lets no exception out.
C11_DefaultsWithoutUsableFile ==
    [][(Starts /\ (config_file.k \in {"missing", "unreadable", "garbage"}
                     \/ config_file.v.k # "obj")) =>
          /\ Settings' = Defaults
          /\ app' = "running" /\ exit_code' = exit_code
          /\ config_file' = config_file]_vars

\* started on an unreadable file: defaults, and the first tick has run
C11_Witness ==
    /\ app = "running" /\ runs = 1 /\ config_file = Unreadable
    /\ Settings = Defaults /\ time_lbl # NoText

\* the file's object, when the settings file holds one
IsObjectFile(file) == file.k = "json" /\ file.v.k = "obj"

\* the value of `key` in d when present and accepted by `ok`, else the default
Checked(d, key, ok(_), default) ==
    IF key \in DOMAIN d /\ ok(d[key]) THEN d[key] ELSE default

IsBool(v) == v.k = "bool"
IsString(v) == v.k = "str"
IsPair(v) == v.k = "list" /\ Len(v.l) = 2

\* the defaults merged with the well-typed fields of the object d
WellTypedMerge(d) ==
    [time_pt |-> Checked(d, "font", IsNumber, Defaults.time_pt),
     opacity |-> Checked(d, "opacity", IsNumber, Defaults.opacity),
     spacing |-> Checked(d, "spacing", IsNumber, Defaults.spacing),
     topmost |-> Checked(d, "top", IsBool, Defaults.topmost),
     manual_offset |-> Checked(d, "offset", IsNumber, Defaults.manual_offset),
     color |-> QColor(Checked(d, "color", IsString, Str(ColorName(Defaults.color))).s),
     pos |-> LET pv == Checked(d, "pos", IsPair, List2(Defaults.pos[1], Defaults.pos[2]))
             IN  <<pv.l[1], pv.l[2]>>]

\* C12: a start on a settings file that holds an object adopts the well-typed
\* fields and takes the default for a field whose value has the wrong type.
\* (_load adopts every present value as it is: a string for `font` becomes the
\* font size, and _apply_style then raises.)
C12_IllTypedFieldGetsDefault ==
    [][(Starts /\ IsObjectFile(config_file)) =>
          Settings' = WellTypedMerge(config_file.v.o)]_vars

\* every known key present in d holds a value of the type _save writes
WellTypedFile(d) ==
    /\ \A key \in DOMAIN d \cap {"font", "opacity", "spacing", "offset"} : IsNumber(d[key])
    /\ "top" \in DOMAIN d => IsBool(d.top)
    /\ "color" \in DOMAIN d => IsString(d.color)
    /\ "pos" \in DOMAIN d => IsPair(d.pos)

\* C13: a start on a file with unknown keys and with known keys missing takes,
\* for each known key, the file's value when the key is present and the default
\* of that key when it is absent; the unknown keys change nothing.
C13_MergeKeyByKey ==
    [][(Starts /\ IsObjectFile(config_file) /\ WellTypedFile(config_file.v.o)) =>
          LET d == config_file.v.o
              has(key) == key \in DOMAIN d
          IN  /\ time_pt' = IF has("font") THEN d.font ELSE Defaults.time_pt
              /\ opacity' = IF has("opacity") THEN d.opacity ELSE Defaults.opacity
              /\ spacing' = IF has("spacing") THEN d.spacing ELSE Defaults.spacing
              /\ topmost' = IF has("top") THEN d.top ELSE Defaults.topmost
              /\ manual_offset' = IF has("offset") THEN d.offset
                                                    ELSE Defaults.manual_offset
              /\ color' = IF has("color") THEN QColor(d.color.s) ELSE Defaults.color
              /\ pos' = IF has("pos") THEN <<d.pos.l[1], d.pos.l[2]>> ELSE Defaults.pos
              /\ Settings' = _load(Defaults,
                                   Json(Obj(Restrict(d, DOMAIN d \cap KnownKeys))))
              /\ app' = "running"]_vars

\* started on a file with the unknown key `theme` and without `opacity`: only the
\* opacity is the default
C13_Witness ==
    /\ app = "running" /\ runs = 1
    /\ config_file = Json(Obj(Restrict(SampleFile, DOMAIN SampleFile \ {"opacity"})))
    /\ opacity = Defaults.opacity /\ time_pt = Num(120) /\ spacing = Num(30)
    /\ color = RGBA("#ff0000", 255) /\ topmost = Bool(FALSE)
    /\ manual_offset = Num(35) /\ pos = <<1, 0>>

\* the file holds the settings s as _save writes them
FileHolds(file, s) == file = Json(SaveData(s))

\* C14 (as stated): after accepts followed by an exit the file holds the latest
\* in-memory settings.
C14_FileHoldsSettingsAfterExit ==
    (app = "off" /\ runs >= 1) => FileHolds(config_file, Settings)

\* C14 (amended): every accepted dialog (also one that changed nothing) and every
\* exit through the exit action attempts one write of the in-memory settings; a
\* write that succeeds leaves them in the file, a write that fails leaves the
\* file as it was or damaged; a termination through the exception hook writes
\* nothing.  After an exit whose write succeeded the file holds the settings.
C14_WrittenOnAcceptAndExit ==
    [][/\ ((app = "running" /\ app' = "off")
             \/ (\E io \in SaveOutcomes : Accept(io))) =>
             /\ saved' \in {"ok", "failed"}
             /\ saved' = "ok" => FileHolds(config_file', Settings')
             /\ saved' = "failed" => config_file' \in {config_file, Garbage}
       /\ app' = "crashed" => config_file' = config_file
       /\ (app' = "off" /\ runs' >= 1 /\ saved' = "ok") =>
             FileHolds(config_file', Settings')]_vars

\* from the defaults: an offset accepted in the dialog, then a drag, then an exit
\* that wrote both
C14_Witness ==
    /\ app = "off" /\ runs = 1 /\ saved = "ok" /\ FileHolds(config_file, Settings)
    /\ manual_offset = Num(150) /\ pos = <<1, 0>> /\ time_pt = Defaults.time_pt

\* the steps that write the settings: an accepted dialog, or a start (_load)
AcceptOrStart == Starts \/ \E io \in SaveOutcomes : Accept(io)

C16_AcceptTakesControlValues ==
    [][(\E io \in SaveOutcomes : Accept(io)) =>
          /\ time_pt' = Num(dlg.e_font) /\ opacity' = Num(dlg.e_opac)
          /\ spacing' = Num(dlg.e_space) /\ manual_offset' = Num(dlg.e_off)
          /\ color' = dlg.color /\ topmost' = Bool(dlg.chk_top)]_vars

\* the outcomes of a write that fails
FailedSaves == SaveOutcomes \ {"ok"}

\* C17: a failing save lets no exception out and changes nothing in memory: the
\* accepted dialog's values are in force and the application goes on; the exit
\* action quits with exit code 0; network_offset and the NTP thread are untouched.
C17_FailedSaveIsSwallowed ==
    [][/\ (\E io \in FailedSaves : Accept(io)) =>
             LET d == Accepted(dlg) IN
             /\ app' = "running" /\ exit_code' = exit_code
             /\ settings_vars' = <<d.font_size, d.spacing, d.opacity, Bool(d.chk_top),
                                   d.color, d.manual_offset>>
             /\ saved' = "failed" /\ config_file' \in {config_file, Garbage}
             /\ UNCHANGED <<offset, pos, ntp_vars>>
       /\ (saved' = "failed" /\ \E io \in FailedSaves : Exit(io)) =>
             /\ app' = "off" /\ exit_code' = 0
             /\ config_file' \in {config_file, Garbage}
             /\ UNCHANGED <<settings_vars, offset, pos>>]_vars

\* the write at the exit failed with a synchronised offset and an offset accepted
\* in the dialog before: the process has ended with exit code 0
C17_Witness ==
    /\ app = "off" /\ exit_code = 0 /\ saved = "failed" /\ config_file = Garbage
    /\ offset = 35 /\ manual_offset = Num(150)

\* C19: network_offset is not persisted: what a save writes under `offset` is the
\* manual offset, the file has the seven keys of _save only, and a start sets
\* network_offset to 0 and takes the manual offset from the file: after an exit
\* and a restart the manual offset is the one that was saved, whatever the
\* network offset of the run before.
C19_NetworkOffsetNotPersisted ==
    [][/\ (saved' = "ok" /\ ((\E io \in SaveOutcomes : Accept(io))
                               \/ (app = "running" /\ app' = "off"))) =>
             /\ IsObjectFile(config_file')
             /\ DOMAIN config_file'.v.o = KnownKeys
             /\ config_file'.v.o.offset = manual_offset'
       /\ Starts =>
             /\ offset' = 0
             /\ manual_offset' = IF IsObjectFile(config_file)
                                 THEN Get(config_file.v.o, "offset", Num(0)) ELSE Num(0)
       /\ RestartAfterSave => manual_offset' = manual_offset]_vars

\* the second run starts at network offset 0 with the manual offset accepted in
\* the first run, which had synchronised (its pause is over) to 3.5 s
C19_Witness ==
    /\ runs = 2 /\ app = "running" /\ attempts = 0 /\ offset = 0
    /\ clock >= StartClock + SleepTicks /\ manual_offset = Num(150)
    /\ IsObjectFile(config_file) /\ config_file.v.o.offset = Num(150)

\* the faults of the GUI thread: a tick or a dialog on a manual offset that is no
\* number (or a topmost flag that is no boolean)
TickFaults == Tick /\ ~IsNumber(manual_offset)
DialogFaults == OpenSettings /\ (~IsNumber(manual_offset) \/ topmost.k # "bool")

\* C18: a fault in __init__ (styling a font size, spacing or opacity that is no
\* number), in a tick or in the construction of the dialog ends the process at
\* once with exit code 1: no thread, no dialog, no further step of that run; the
\* exit action ends it with exit code 0.
C18_FaultsAreFatal ==
    [][/\ (Starts /\ StyleFault(Settings')) => (app' = "crashed" /\ exit_code' = 1)
       /\ (TickFaults \/ DialogFaults) => (app' = "crashed" /\ exit_code' = 1)
       /\ app' = "crashed" => (exit_code' # 0 /\ threads' = 0 /\ ~dlg'.open)
       /\ (app = "running" /\ app' = "off") => exit_code' = 0
       /\ (app = "crashed" /\ ~Starts) => UNCHANGED vars]_vars

\* started on a file whose manual offset is a string; the first tick (or the
\* dialog) has ended the process with exit code 1
C18_Witness ==
    /\ app = "crashed" /\ exit_code = 1 /\ runs = 1 /\ threads = 0
    /\ manual_offset = Str("abc") /\ time_pt = Num(120)

\* the whole second of the instant t, as a Date header carries it
WholeSecond(t) == t - (t % TickPeriod)

\* C20: whatever the request's outcome, fetch_ntp returns to the loop (the thread
\* leaves the request only to the statement after the call): with a Date header
\* that parses it returns the server's instant (to the second), in every other
\* case the local UTC time read when the request has ended.
C20_FetchAlwaysReturns ==
    [][ntp_pc # "request" \/ ntp_pc' = "request" \/ app' # "running"
         \/ /\ ntp_pc' = "returned" /\ in_flight' = 0 /\ offset' = offset
            /\ outcome' \in AllKinds
            /\ \A r \in ResponsesOf(AllKinds, Skews) :
                  NtpRespond(r) =>
                     ntp_dt' = IF r.kind \in FailureKinds
                               THEN [aware |-> TRUE, t |-> clock]
                               ELSE [aware |-> r.kind = "date", t |-> WholeSecond(r.t)]]_vars

\* after a successful first attempt the second request has timed out, and
\* fetch_ntp has returned the local time of that moment
C20_Witness ==
    /\ app = "running" /\ ntp_pc = "returned" /\ attempts = 2 /\ synced
    /\ outcome = "timeout" /\ clock = req_start + TimeoutTicks
    /\ ntp_dt = [aware |-> TRUE, t |-> clock]

\* _load ends in an error path that logs the fall back to the default
\* configuration: JSON that is no object, or a color that QColor() rejects
LoadFallsBack(file) ==
    file.k = "json" /\ (file.v.k # "obj" \/ ("color" \in DOMAIN file.v.o
                                              /\ ~IsString(file.v.o.color)))

\* C21: a load that ends in such an error path leaves every setting at its
\* default: no field assigned before the error keeps the file's value.
C21_FailedLoadKeepsDefaults ==
    [][(Starts /\ LoadFallsBack(config_file)) => Settings' = Defaults]_vars

\* a step that ends a successful _save: an accepted dialog or the exit action
SuccessfulSave ==
    saved' = "ok" /\ ((app = "running" /\ app' = "off")
                        \/ \E io \in SaveOutcomes : Accept(io))

\* C22: after a successful save the file is an object of exactly the seven keys
\* font, opacity, spacing, color, top, offset and pos, each with the in-memory
\* value of that moment (the color by its name, the position as [x, y]); no key
\* and no value of the file's previous content is left.
C22_SaveOverwritesWholeFile ==
    [][SuccessfulSave =>
          /\ IsObjectFile(config_file')
          /\ config_file'.v.o = [font |-> time_pt', opacity |-> opacity',
                                 spacing |-> spacing', color |-> Str(ColorName(color')),
                                 top |-> topmost', offset |-> manual_offset',
                                 pos |-> List2(pos'[1], pos'[2])]
          /\ \A key \in DOMAIN config_file'.v.o :
                key \in {"font", "opacity", "spacing", "color", "top", "offset", "pos"}]_vars

\* started on the file with the unknown key `theme` and without five of the known
\* keys, then the exit action: the file has the seven keys and no `theme`
C22_Witness ==
    /\ app = "off" /\ saved = "ok" /\ runs = 1
    /\ time_pt = Num(120) /\ manual_offset = Num(2500)
    /\ IsObjectFile(config_file) /\ "theme" \notin DOMAIN config_file.v.o
    /\ config_file.v.o.offset = Num(2500) /\ config_file.v.o.opacity = Num(DefaultOpacity)
    /\ Cardinality(DOMAIN config_file.v.o) = 7

\* the range of the dialog's spin box for the manual offset
InDialogRange(v) == IsNumber(v) /\ v.n >= -2000 /\ v.n <= 2000

\* C23: a numeric `offset` of the file becomes manual_offset as it is, also
\* outside the dialog's range; a tick shows the clock plus both offsets in full;
\* a save writes manual_offset as it is; manual_offset changes only at a start and
\* at an accepted dialog, and an accept either leaves it as it was or sets it to
\* the spin box's value, which lies within [-200, 200].
C23_OffsetNotClampedOutsideDialog ==
    [][/\ (Starts /\ IsObjectFile(config_file) /\ "offset" \in DOMAIN config_file.v.o
             /\ IsNumber(config_file.v.o.offset)) =>
             manual_offset' = config_file.v.o.offset
       /\ (Tick /\ app' = "running") =>
             /\ time_lbl' = TimeText([utc |-> clock + offset + manual_offset.n,
                                      tz |-> ZoneTicks])
             /\ date_lbl' = DateText([utc |-> clock + offset + manual_offset.n,
                                      tz |-> ZoneTicks])
       /\ (saved' = "ok" /\ app = "running" /\ app' = "off") =>
             config_file'.v.o.offset = manual_offset
       /\ (\E io \in SaveOutcomes : Accept(io)) =>
             /\ manual_offset' = manual_offset
                  \/ (manual_offset' = Num(dlg.e_off) /\ InDialogRange(manual_offset'))
             /\ saved' = "ok" => config_file'.v.o.offset = manual_offset'
       /\ manual_offset' = manual_offset \/ Starts
             \/ \E io \in SaveOutcomes : Accept(io)]_vars

\* the file's offset of 250 s, outside the dialog's range, was loaded, shown by a
\* tick (23:59:57 + 250 s = 00:04:07) and written back by the exit
C23_Witness ==
    /\ app = "off" /\ saved = "ok" /\ runs = 1 /\ manual_offset = Num(2500)
    /\ time_lbl = <<0, 4, 7>> /\ config_file = Json(Obj([FullFile EXCEPT !.offset = Num(2500)]))

\* the open dialog is as SettingsDialog.__init__ made it from the settings in
\* force: no control was touched (or each is back at its first value)
Untouched ==
    /\ dlg.open /\ IsNumber(manual_offset) /\ topmost.k = "bool"
    /\ dlg = [open |-> TRUE,
              font_size |-> time_pt, opacity |-> opacity, spacing |-> spacing,
              color |-> color, manual_offset |-> manual_offset, chk_top |-> topmost.b,
              e_font |-> SpinValue("font", time_pt.n),
              e_opac |-> SpinValue("opac", opacity.n),
              e_space |-> SpinValue("space", spacing.n),
              e_off |-> SpinValue("off", manual_offset.n)]

\* C24: accepting the dialog without having touched a control leaves font size,
\* opacity, spacing, color, topmost flag and manual offset as they were, also
\* for values loaded from a file that lie outside the controls' ranges.
C24_UntouchedAcceptIsIdempotent ==
    [][(Untouched /\ \E io \in SaveOutcomes : Accept(io)) =>
          settings_vars' = settings_vars]_vars

\* C25: a close event of the main window only hides it: the process goes on with
\* its timer and its NTP thread as they were, nothing is saved and no setting
\* changes; the process ends with exit code 0 only by the exit action, and every
\* other end is a fault with exit code 1.
C25_CloseOnlyHides ==
    [][/\ hidden' = hidden \/ ~CloseEvent
          \/ /\ hidden' /\ app' = "running" /\ TimerFires' /\ exit_code' = exit_code
             /\ threads' = threads /\ threads' = 1
             /\ UNCHANGED <<ntp_vars, settings_vars, offset, pos, config_file, saved,
                            clock, date_lbl, time_lbl, runs>>
       /\ app' = app \/ app # "running"
          \/ (app' = "off" /\ exit_code' = 0 /\ saved' # "none"
                /\ \E io \in SaveOutcomes : Exit(io))
          \/ (app' = "crashed" /\ exit_code' = 1)]_vars

\* the window is hidden (by a close event) and nothing was saved, while the
\* labels have been updated and the thread has synchronised and sleeps
C25_Witness ==
    /\ app = "running" /\ hidden /\ saved = "none" /\ ~dlg.open
    /\ threads = 1 /\ ntp_pc = "sleep" /\ synced /\ time_lbl # NoText
    /\ config_file = Json(Obj(FullFile)) /\ exit_code = -1

\* a step of one of the two toggles: the tray icon's Trigger, the menu's show/hide
Toggles == TrayActivated("Trigger") \/ ToggleVisible

\* C26: the tray icon's Trigger activation and the menu action show/hide each
\* turn a hidden window into a shown one and a shown one into a hidden one and
\* change nothing else, so that two of them in a row restore the visibility; the
\* other activation reasons leave it as it is; a close event leaves the window
\* hidden, and in every state of the running application, hidden or shown, both
\* toggles are possible and flip the visibility.
C26_TogglesFlipVisibility ==
    /\ [](app = "running" =>
            /\ ENABLED (ToggleVisible /\ hidden' = ~hidden)
            /\ ENABLED (TrayActivated("Trigger") /\ hidden' = ~hidden))
    /\ [][/\ Toggles =>
                /\ hidden' = ~hidden /\ app' = "running"
                /\ UNCHANGED <<on_top, pos, drag_pos, dlg, settings_vars, saved>>
          /\ \A reason \in TrayReasons \ {"Trigger"} :
                TrayActivated(reason) => hidden' = hidden
          /\ CloseEvent => (~hidden /\ hidden')]_vars

\* the window is hidden (by a close event or a toggle) while the settings dialog
\* is open with an edited offset: one toggle will show it again
C26_Witness ==
    /\ app = "running" /\ hidden /\ dlg.open /\ dlg.e_off = 150 /\ saved = "none"

\* the sum and the difference of two points
Plus(p, q) == <<p[1] + q[1], p[2] + q[2]>>
Minus(p, q) == <<p[1] - q[1], p[2] - q[2]>>

\* the window takes mouse events, and a left-button press is in effect: drag_pos
\* is the point of that press or of the last move after it
Dragging == app = "running" /\ ~hidden /\ ~dlg.open /\ drag_pos # NoPoint

\* C27: while a left-button press is in effect, a mouse move to p shifts the
\* window by p minus the point of the press or of the move before (so that after
\* any sequence of moves the window is at its position at the press plus p - p0,
\* for every move that keeps it on the screen); a mouse move without a press in
\* effect (none yet, after a release, after a press of another button) leaves
\* the position as it is, and nothing but a move and the startup load changes it.
C27_DragMovesWindowByDelta ==
    /\ [](Dragging =>
            \A p \in DragPoints :
               OnScreen(Plus(pos, Minus(p, drag_pos))) =>
                  ENABLED (MouseMove(p) /\ pos' = Plus(pos, Minus(p, drag_pos))
                             /\ drag_pos' = p))
    /\ [][/\ pos' = pos \/ Starts \/ (Dragging /\ \E p \in DragPoints : MouseMove(p))
          /\ (drag_pos = NoPoint /\ \E p \in DragPoints : MouseMove(p)) =>
                (pos' = pos /\ drag_pos' = NoPoint)]_vars
====
